---- MODULE Spec2Model ----
(***************************************************************************)
(* State-machine model of org/user_api.go: the HTTP handlers of the user   *)
(* API (register, login, update, profile, follow, unfollow) running        *)
(* against the users and follow_users tables.                              *)
(*                                                                         *)
(* A request occupies a slot of reqs from its arrival (Begin...) to the    *)
(* delivery of its response (Return).  Several requests are in flight at   *)
(* once; each SQL statement is one atomic step.  A handler that issues a   *)
(* single statement runs as one step (its local computation before and     *)
(* after the statement touches only the request's own data); a handler     *)
(* that issues two statements (follow, unfollow) runs as two steps.        *)
(*                                                                         *)
(* Optional values (a nil pointer, an empty hash, no token) are sequences: *)
(* <<>> is absent, <<v>> or a longer tuple is present.                     *)
(***************************************************************************)
EXTENDS Integers, Sequences, FiniteSets, Bags, TLC

VARIABLES
    users,      \* the users table: a set of rows
    follows,    \* the follow_users table: a bag of <<user_id, followed_user_id>> rows
    reqs,       \* reqs[p]: the request in slot p, its position and its response
    now,        \* the wall clock, in hours
    signer      \* whether signing a token succeeds: "ok" or "failing"

vars == <<users, follows, reqs, now, signer>>

\* What no handler changes.
env == <<now, signer>>

(***************************************************************************)
(* Bounds                                                                  *)
(***************************************************************************)
NProcs == 2          \* requests in flight at once
MaxUsers == 2        \* rows the users table may hold

Procs == 1..NProcs

(***************************************************************************)
(* Errors the handlers return                                              *)
(***************************************************************************)
NoErr == "nil"
ErrUserRequired == "JSON field user is required"
ErrNoRows == "pg: no rows in result set"
ErrUniqueUsers == "pg: duplicate key value violates unique constraint on users"
ErrUniqueFollows == "pg: duplicate key value violates unique constraint on follow_users"
ErrPasswordTooLong == "bcrypt: password length exceeds 72 bytes"
errUserNotFound == "Not registered email or invalid password"
ErrTokenSign == "jwt: the token could not be signed"
ErrTokenInvalid == "jwt: the token is malformed or its signature is invalid"
ErrTokenExpired == "jwt: the token is expired"

(***************************************************************************)
(* Inputs                                                                  *)
(***************************************************************************)
LongPassword == "pw-longer-than-72-bytes"
Salts == {1, 2}

\* The "user" object of a register or update request.  A field the JSON
\* leaves out decodes to "".
Draft(e, u, p, b, i) ==
    [Email |-> e, Username |-> u, Password |-> p, Bio |-> b, Image |-> i]

Drafts ==
    { Draft("a@x", "alice", "pw1", "", ""),
      Draft("b@x", "bob", "pw2", "bio", "img"),
      Draft("a@x", "bob", "pw2", "", ""),
      Draft("b@x", "bob", "", "bio", "img"),
      Draft("", "", "", "", ""),
      Draft("b@x", "bob", LongPassword, "", "") }

\* in.User: <<>> when the JSON has no "user" field.
UserBodies == {<<>>} \cup {<<d>> : d \in Drafts}

LoginBodies ==
    {<<>>} \cup {<<[Email |-> e, Password |-> p]>> :
                    e \in {"a@x", "b@x"}, p \in {"pw1", "pw2", ""}}

UsernameParams == {"alice", "bob", "nobody"}

(***************************************************************************)
(* Password hashing                                                        *)
(***************************************************************************)
\* bcrypt.GenerateFromPassword: a digest that embeds a fresh random salt.
GenerateFromPassword(pass, salt) ==
    IF pass = LongPassword
    THEN [bytes |-> <<>>, err |-> ErrPasswordTooLong]
    ELSE [bytes |-> <<"2a", salt, pass>>, err |-> NoErr]

\* bcrypt.CompareHashAndPassword: re-hashes pass with the salt the digest
\* embeds and compares; a malformed digest is an error too.
CompareHashAndPassword(hash, pass) ==
    IF Len(hash) # 3 THEN "bcrypt: hashedSecret too short"
    ELSE IF GenerateFromPassword(pass, hash[2]).bytes = hash THEN NoErr
    ELSE "bcrypt: hashedPassword is not the hash of the given password"

hashPassword(pass, salt) ==
    LET g == GenerateFromPassword(pass, salt)
    IN  IF g.err # NoErr THEN [hash |-> <<>>, err |-> g.err]
        ELSE [hash |-> g.bytes, err |-> NoErr]

comparePasswords(hash, pass) ==
    IF CompareHashAndPassword(hash, pass) # NoErr THEN errUserNotFound ELSE NoErr

(***************************************************************************)
(* Tokens                                                                  *)
(***************************************************************************)
TokenTTL == 24      \* hours

\* CreateUserToken(id, ttl): the signed token carries the user id and the
\* time it expires at, ttl from now; signing may fail.
CreateUserToken(id, ttl) ==
    IF signer # "ok" THEN [token |-> <<>>, err |-> ErrTokenSign]
    ELSE [token |-> <<id, now + ttl>>, err |-> NoErr]

\* The verification of a token at time t: the user id it carries, or why
\* it is refused.
VerifyUserToken(token, t) ==
    IF Len(token) # 2 THEN [id |-> 0, err |-> ErrTokenInvalid]
    ELSE IF t > token[2] THEN [id |-> 0, err |-> ErrTokenExpired]
    ELSE [id |-> token[1], err |-> NoErr]

\* setUserToken with a lifetime of 24 (nanoseconds), not 24*time.Hour: the
\* token expires as it is made.
setUserToken_TTLNanoseconds(user) ==
    LET t == CreateUserToken(user.ID, 0)
    IN  IF t.err # NoErr THEN [user |-> user, err |-> t.err]
        ELSE [user |-> [user EXCEPT !.Token = t.token], err |-> NoErr]

setUserToken(user) ==
    LET t == CreateUserToken(user.ID, TokenTTL)
    IN  IF t.err # NoErr THEN [user |-> user, err |-> t.err]
        ELSE [user |-> [user EXCEPT !.Token = t.token], err |-> NoErr]

(***************************************************************************)
(* The User struct and the users table                                     *)
(***************************************************************************)
\* A User as the handlers hold it; Password, Token and Following are not
\* columns.
UserOfRow(r) ==
    [ID |-> r.id, Email |-> r.email, Username |-> r.username,
     Password |-> "", PasswordHash |-> r.password_hash,
     Bio |-> r.bio, Image |-> r.image, Token |-> <<>>, Following |-> FALSE]

\* The User a register or update request decodes into.
UserOfDraft(d) ==
    [ID |-> 0, Email |-> d.Email, Username |-> d.Username,
     Password |-> d.Password, PasswordHash |-> <<>>,
     Bio |-> d.Bio, Image |-> d.Image, Token |-> <<>>, Following |-> FALSE]

RowOfUser(u, id) ==
    [id |-> id, email |-> u.Email, username |-> u.Username,
     password_hash |-> u.PasswordHash, bio |-> u.Bio, image |-> u.Image]

\* INSERT INTO users: assigns the id; the unique indexes on email and
\* username refuse a duplicate.
InsertUser(tbl, u) ==
    IF \E r \in tbl : r.email = u.Email \/ r.username = u.Username
    THEN [users |-> tbl, user |-> u, err |-> ErrUniqueUsers]
    ELSE LET id == Cardinality(tbl) + 1
         IN  [users |-> tbl \cup {RowOfUser(u, id)},
              user |-> [u EXCEPT !.ID = id], err |-> NoErr]

\* SELECT ... FROM users WHERE email = ?
SelectUserByEmail(tbl, email) ==
    IF \E r \in tbl : r.email = email
    THEN [user |-> <<UserOfRow(CHOOSE r \in tbl : r.email = email)>>, err |-> NoErr]
    ELSE [user |-> <<>>, err |-> ErrNoRows]

\* SELECT ... FROM users WHERE username = ?
SelectUserByUsername(tbl, username) ==
    IF \E r \in tbl : r.username = username
    THEN [user |-> <<UserOfRow(CHOOSE r \in tbl : r.username = username)>>,
          err |-> NoErr]
    ELSE [user |-> <<>>, err |-> ErrNoRows]

\* UPDATE users SET email, username, password_hash, image, bio WHERE id = ?
\* RETURNING *: the unique indexes refuse a value another row holds, and no
\* row to return is an error.
UpdateUserWhereID(tbl, id, u) ==
    LET hit == {r \in tbl : r.id = id}
        rest == tbl \ hit
    IN  IF hit = {} THEN [users |-> tbl, returning |-> <<>>, err |-> ErrNoRows]
        ELSE IF \E r \in rest : r.email = u.Email \/ r.username = u.Username
        THEN [users |-> tbl, returning |-> <<>>, err |-> ErrUniqueUsers]
        ELSE [users |-> rest \cup {RowOfUser(u, id)},
              returning |-> <<UserOfRow(RowOfUser(u, id))>>, err |-> NoErr]

(***************************************************************************)
(* Requests and responses                                                  *)
(***************************************************************************)
ErrResp(e) == [err |-> e, user |-> <<>>, profile |-> <<>>]
UserResp(u) == [err |-> NoErr, user |-> <<u>>, profile |-> <<>>]
NoResp == [err |-> NoErr, user |-> <<>>, profile |-> <<>>]

\* conc and fresh are history: conc holds the slots whose request was
\* waiting for its statement when this one arrived and that have been the
\* only other request to run a statement since; fresh says that the key
\* this request inserts was free when it arrived.
Idle ==
    [pc |-> "idle", op |-> "none", auth |-> 0, body |-> <<>>, param |-> "",
     token |-> <<>>, user |-> <<>>, resp |-> NoResp, conc |-> {},
     fresh |-> FALSE]

Pending(r) == r.pc \notin {"idle", "done"}

Arrive(p, op, pc, auth, body, param, fresh) ==
    /\ reqs' = [reqs EXCEPT ![p] =
                [pc |-> pc, op |-> op, auth |-> auth, body |-> body,
                 param |-> param, token |-> <<>>, user |-> <<>>,
                 resp |-> NoResp,
                 conc |-> {q \in Procs \ {p} : Pending(reqs[q])},
                 fresh |-> fresh]]
    /\ UNCHANGED env

\* Slot p runs a statement and ends with resp: every other request's conc
\* keeps p at most.
Finish(p, resp) ==
    /\ reqs' = [q \in Procs |->
                IF q = p THEN [reqs[p] EXCEPT !.pc = "done", !.resp = resp]
                ELSE [reqs[q] EXCEPT !.conc = @ \cap {p}]]
    /\ UNCHANGED env

\* createUserHandler without user.Password = "" before the response.
createUserHandler_PasswordEchoed(tbl, body, salt) ==
    IF body = <<>> THEN [users |-> tbl, resp |-> ErrResp(ErrUserRequired)]
    ELSE
    LET user == UserOfDraft(body[1])
        h == hashPassword(user.Password, salt)
    IN  IF h.err # NoErr THEN [users |-> tbl, resp |-> ErrResp(h.err)]
        ELSE
        LET ins == InsertUser(tbl, [user EXCEPT !.PasswordHash = h.hash])
        IN  IF ins.err # NoErr THEN [users |-> tbl, resp |-> ErrResp(ins.err)]
            ELSE
            LET t == setUserToken(ins.user)
            IN  IF t.err # NoErr
                THEN [users |-> ins.users, resp |-> ErrResp(t.err)]
                ELSE [users |-> ins.users, resp |-> UserResp(t.user)]

\* createUserHandler with an INSERT that, on a row with the draft's email,
\* overwrites that row (ON CONFLICT (email) DO UPDATE).
createUserHandler_Upsert(tbl, body, salt) ==
    IF body = <<>> THEN [users |-> tbl, resp |-> ErrResp(ErrUserRequired)]
    ELSE
    LET user == UserOfDraft(body[1])
        h == hashPassword(user.Password, salt)
    IN  IF h.err # NoErr THEN [users |-> tbl, resp |-> ErrResp(h.err)]
        ELSE
        LET hashed == [user EXCEPT !.PasswordHash = h.hash]
            old == {r \in tbl : r.email = user.Email}
            ins == IF old = {} THEN InsertUser(tbl, hashed)
                   ELSE LET id == (CHOOSE r \in old : TRUE).id
                            put == UpdateUserWhereID(tbl, id, hashed)
                        IN  [users |-> put.users,
                             user |-> [hashed EXCEPT !.ID = id],
                             err |-> put.err]
        IN  IF ins.err # NoErr THEN [users |-> tbl, resp |-> ErrResp(ins.err)]
            ELSE
            LET t == setUserToken(ins.user)
            IN  IF t.err # NoErr
                THEN [users |-> ins.users, resp |-> ErrResp(t.err)]
                ELSE [users |-> ins.users,
                      resp |-> UserResp([t.user EXCEPT !.Password = ""])]

(***************************************************************************)
(* createUserHandler                                                       *)
(***************************************************************************)
\* createUserHandler without the check of Insert's error.
createUserHandler_InsertErrIgnored(tbl, body, salt) ==
    IF body = <<>> THEN [users |-> tbl, resp |-> ErrResp(ErrUserRequired)]
    ELSE
    LET user == UserOfDraft(body[1])
        h == hashPassword(user.Password, salt)
    IN  IF h.err # NoErr THEN [users |-> tbl, resp |-> ErrResp(h.err)]
        ELSE
        LET ins == InsertUser(tbl, [user EXCEPT !.PasswordHash = h.hash])
            t == setUserToken(ins.user)
        IN  [users |-> ins.users,
             resp |-> UserResp([t.user EXCEPT !.Password = ""])]

createUserHandler(tbl, body, salt) ==
    IF body = <<>> THEN [users |-> tbl, resp |-> ErrResp(ErrUserRequired)]
    ELSE
    LET user == UserOfDraft(body[1])
        h == hashPassword(user.Password, salt)
    IN  IF h.err # NoErr THEN [users |-> tbl, resp |-> ErrResp(h.err)]
        ELSE
        LET ins == InsertUser(tbl, [user EXCEPT !.PasswordHash = h.hash])
        IN  IF ins.err # NoErr THEN [users |-> tbl, resp |-> ErrResp(ins.err)]
            ELSE
            LET t == setUserToken(ins.user)
            IN  IF t.err # NoErr
                THEN [users |-> ins.users, resp |-> ErrResp(t.err)]
                ELSE [users |-> ins.users,
                      resp |-> UserResp([t.user EXCEPT !.Password = ""])]

BeginCreateUser(p) ==
    /\ reqs[p].pc = "idle"
    /\ Cardinality(users)
          + Cardinality({q \in Procs : Pending(reqs[q]) /\ reqs[q].op = "create"})
          < MaxUsers
    /\ \E body \in UserBodies :
          Arrive(p, "create", "insert", 0, body, "",
                 /\ body # <<>>
                 /\ \A r \in users : /\ r.email # body[1].Email
                                      /\ r.username # body[1].Username)
    /\ UNCHANGED <<users, follows>>

CreateUser(p) ==
    /\ reqs[p].pc = "insert"
    /\ reqs[p].op = "create"
    /\ \E salt \in Salts :
          LET out == createUserHandler(users, reqs[p].body, salt)
          IN  /\ users' = out.users
              /\ Finish(p, out.resp)
    /\ UNCHANGED follows

(***************************************************************************)
(* loginUserHandler                                                        *)
(***************************************************************************)
\* loginUserHandler without comparePasswords.
loginUserHandler_NoCompare(tbl, body) ==
    IF body = <<>> THEN ErrResp(ErrUserRequired)
    ELSE
    LET sel == SelectUserByEmail(tbl, body[1].Email)
    IN  IF sel.err # NoErr THEN ErrResp(sel.err)
        ELSE
        LET t == setUserToken(sel.user[1])
        IN  IF t.err # NoErr THEN ErrResp(t.err) ELSE UserResp(t.user)

loginUserHandler(tbl, body) ==
    IF body = <<>> THEN ErrResp(ErrUserRequired)
    ELSE
    LET sel == SelectUserByEmail(tbl, body[1].Email)
    IN  IF sel.err # NoErr THEN ErrResp(sel.err)
        ELSE
        LET user == sel.user[1]
            cmp == comparePasswords(user.PasswordHash, body[1].Password)
        IN  IF cmp # NoErr THEN ErrResp(cmp)
            ELSE
            LET t == setUserToken(user)
            IN  IF t.err # NoErr THEN ErrResp(t.err) ELSE UserResp(t.user)

BeginLoginUser(p) ==
    /\ reqs[p].pc = "idle"
    /\ \E body \in LoginBodies : Arrive(p, "login", "select", 0, body, "", FALSE)
    /\ UNCHANGED <<users, follows>>

LoginUser(p) ==
    /\ reqs[p].pc = "select"
    /\ reqs[p].op = "login"
    /\ Finish(p, loginUserHandler(users, reqs[p].body))
    /\ UNCHANGED <<users, follows>>

(***************************************************************************)
(* updateUserHandler                                                       *)
(***************************************************************************)
\* updateUserHandler with the row chosen by the draft's email, not by
\* authUser.ID.
updateUserHandler_WhereEmail(tbl, authID, body, salt) ==
    IF body = <<>> THEN [users |-> tbl, resp |-> ErrResp(ErrUserRequired)]
    ELSE
    LET user == UserOfDraft(body[1])
        h == hashPassword(user.Password, salt)
        ids == {r.id : r \in {x \in tbl : x.email = user.Email}}
    IN  IF h.err # NoErr THEN [users |-> tbl, resp |-> ErrResp(h.err)]
        ELSE IF ids = {} THEN [users |-> tbl, resp |-> ErrResp(ErrNoRows)]
        ELSE
        LET upd == UpdateUserWhereID(tbl, CHOOSE i \in ids : TRUE,
                                     [user EXCEPT !.PasswordHash = h.hash])
        IN  IF upd.err # NoErr THEN [users |-> tbl, resp |-> ErrResp(upd.err)]
            ELSE [users |-> upd.users, resp |-> UserResp(upd.returning[1])]

\* updateUserHandler without the check of Update's error: authUser goes
\* back as it was loaded.
updateUserHandler_UpdateErrIgnored(tbl, authID, body, salt) ==
    IF body = <<>> THEN [users |-> tbl, resp |-> ErrResp(ErrUserRequired)]
    ELSE
    LET user == UserOfDraft(body[1])
        h == hashPassword(user.Password, salt)
    IN  IF h.err # NoErr THEN [users |-> tbl, resp |-> ErrResp(h.err)]
        ELSE
        LET upd == UpdateUserWhereID(tbl, authID,
                                     [user EXCEPT !.PasswordHash = h.hash])
        IN  IF upd.err # NoErr
            THEN [users |-> tbl,
                  resp |-> UserResp(UserOfRow(CHOOSE r \in tbl : r.id = authID))]
            ELSE [users |-> upd.users, resp |-> UserResp(upd.returning[1])]

updateUserHandler(tbl, authID, body, salt) ==
    IF body = <<>> THEN [users |-> tbl, resp |-> ErrResp(ErrUserRequired)]
    ELSE
    LET user == UserOfDraft(body[1])
        h == hashPassword(user.Password, salt)
    IN  IF h.err # NoErr THEN [users |-> tbl, resp |-> ErrResp(h.err)]
        ELSE
        LET upd == UpdateUserWhereID(tbl, authID,
                                     [user EXCEPT !.PasswordHash = h.hash])
        IN  IF upd.err # NoErr THEN [users |-> tbl, resp |-> ErrResp(upd.err)]
            ELSE [users |-> upd.users, resp |-> UserResp(upd.returning[1])]

\* The request carries the token of an existing user: authUser.
BeginUpdateUser(p) ==
    /\ reqs[p].pc = "idle"
    /\ \E r \in users, body \in UserBodies :
          Arrive(p, "update", "update", r.id, body, "", FALSE)
    /\ UNCHANGED <<users, follows>>

UpdateUser(p) ==
    /\ reqs[p].pc = "update"
    /\ reqs[p].op = "update"
    /\ \E salt \in Salts :
          LET out == updateUserHandler(users, reqs[p].auth, reqs[p].body, salt)
          IN  /\ users' = out.users
              /\ Finish(p, out.resp)
    /\ UNCHANGED follows

(***************************************************************************)
(* The follow_users table and profiles                                     *)
(***************************************************************************)
\* INSERT INTO follow_users: the unique index on (user_id,
\* followed_user_id) refuses a pair the table holds.
InsertFollowUser(bag, f) ==
    IF BagIn(f, bag) THEN [follows |-> bag, err |-> ErrUniqueFollows]
    ELSE [follows |-> bag (+) SetToBag({f}), err |-> NoErr]

\* DELETE FROM follow_users WHERE user_id = ? AND followed_user_id = ?
DeleteFollowUser(bag, userID, followedID) ==
    [f \in DOMAIN bag \ {<<userID, followedID>>} |-> bag[f]]

\* EXISTS (SELECT ... FROM follow_users fu WHERE fu.followed_user_id = ?
\* AND fu.user_id = ?)
ExistsFollowUser(bag, userID, followedID) == BagIn(<<userID, followedID>>, bag)

NewProfile(user) ==
    [username |-> user.Username, bio |-> user.Bio, image |-> user.Image,
     following |-> user.Following]

ProfileResp(user) == [err |-> NoErr, user |-> <<>>, profile |-> <<NewProfile(user)>>]

\* A request's first statement is done and its second is to come.
Advance(p, pc, user) ==
    /\ reqs' = [reqs EXCEPT ![p].pc = pc, ![p].user = user]
    /\ UNCHANGED env

(***************************************************************************)
(* profileHandler                                                          *)
(***************************************************************************)
\* profileHandler whose subquery lacks WHERE fu.user_id = ?.
profileHandler_AnyFollower(tbl, bag, viewerID, username) ==
    LET sel == SelectUserByUsername(tbl, username)
    IN  IF sel.err # NoErr THEN ErrResp(sel.err)
        ELSE
        LET user == sel.user[1]
            following == IF viewerID # 0
                         THEN \E f \in BagToSet(bag) : f[2] = user.ID
                         ELSE FALSE
        IN  ProfileResp([user EXCEPT !.Following = following])

\* viewerID is 0 when the request carries no authenticated user.
profileHandler(tbl, bag, viewerID, username) ==
    LET sel == SelectUserByUsername(tbl, username)
    IN  IF sel.err # NoErr THEN ErrResp(sel.err)
        ELSE
        LET user == sel.user[1]
            following == IF viewerID # 0
                         THEN ExistsFollowUser(bag, viewerID, user.ID)
                         ELSE FALSE
        IN  ProfileResp([user EXCEPT !.Following = following])

BeginProfile(p) ==
    /\ reqs[p].pc = "idle"
    /\ \E viewer \in {0} \cup {r.id : r \in users}, name \in UsernameParams :
          Arrive(p, "profile", "select", viewer, <<>>, name, FALSE)
    /\ UNCHANGED <<users, follows>>

Profile(p) ==
    /\ reqs[p].pc = "select"
    /\ reqs[p].op = "profile"
    /\ Finish(p, profileHandler(users, follows, reqs[p].auth, reqs[p].param))
    /\ UNCHANGED <<users, follows>>

(***************************************************************************)
(* followUserHandler                                                       *)
(***************************************************************************)
\* followUserHandler without the check of Insert's error.
followUserHandler_InsertErrIgnored(bag, authID, user) ==
    LET ins == InsertFollowUser(bag, <<authID, user.ID>>)
    IN  [follows |-> ins.follows,
         resp |-> ProfileResp([user EXCEPT !.Following = TRUE])]

\* The handler from its INSERT on; user is the row its SELECT returned.
followUserHandler(bag, authID, user) ==
    LET ins == InsertFollowUser(bag, <<authID, user.ID>>)
    IN  IF ins.err # NoErr THEN [follows |-> bag, resp |-> ErrResp(ins.err)]
        ELSE [follows |-> ins.follows,
              resp |-> ProfileResp([user EXCEPT !.Following = TRUE])]

BeginFollowUser(p) ==
    /\ reqs[p].pc = "idle"
    /\ \E r \in users, name \in UsernameParams :
          Arrive(p, "follow", "select", r.id, <<>>, name,
                 \A t \in users :
                    t.username = name => ~ExistsFollowUser(follows, r.id, t.id))
    /\ UNCHANGED <<users, follows>>

\* FollowUserSelect without the check of Select's error: the INSERT runs
\* with the zero user.
FollowUserSelect_ErrIgnored(p) ==
    /\ reqs[p].pc = "select"
    /\ reqs[p].op = "follow"
    /\ LET sel == SelectUserByUsername(users, reqs[p].param)
       IN  IF sel.err # NoErr
           THEN Advance(p, "insert", <<UserOfDraft(Draft("", "", "", "", ""))>>)
           ELSE Advance(p, "insert", sel.user)
    /\ UNCHANGED <<users, follows>>

FollowUserSelect(p) ==
    /\ reqs[p].pc = "select"
    /\ reqs[p].op = "follow"
    /\ LET sel == SelectUserByUsername(users, reqs[p].param)
       IN  IF sel.err # NoErr THEN Finish(p, ErrResp(sel.err))
           ELSE Advance(p, "insert", sel.user)
    /\ UNCHANGED <<users, follows>>

FollowUserInsert(p) ==
    /\ reqs[p].pc = "insert"
    /\ reqs[p].op = "follow"
    /\ LET out == followUserHandler(follows, reqs[p].auth, reqs[p].user[1])
       IN  /\ follows' = out.follows
           /\ Finish(p, out.resp)
    /\ UNCHANGED users

(***************************************************************************)
(* unfollowUserHandler                                                     *)
(***************************************************************************)
\* unfollowUserHandler whose DELETE lacks WHERE followed_user_id = ?.
unfollowUserHandler_NoWhereFollowed(bag, authID, user) ==
    [follows |-> [f \in {g \in DOMAIN bag : g[1] # authID} |-> bag[f]],
     resp |-> ProfileResp([user EXCEPT !.Following = FALSE])]

\* unfollowUserHandler that answers a DELETE of no row with the no-rows
\* error.
unfollowUserHandler_ErrIfAbsent(bag, authID, user) ==
    IF ~ExistsFollowUser(bag, authID, user.ID)
    THEN [follows |-> bag, resp |-> ErrResp(ErrNoRows)]
    ELSE [follows |-> DeleteFollowUser(bag, authID, user.ID),
          resp |-> ProfileResp([user EXCEPT !.Following = FALSE])]

\* unfollowUserHandler with the two ids of its DELETE swapped.
unfollowUserHandler_DeleteReversed(bag, authID, user) ==
    [follows |-> DeleteFollowUser(bag, user.ID, authID),
     resp |-> ProfileResp([user EXCEPT !.Following = FALSE])]

\* The handler from its DELETE on; user is the row its SELECT returned.
unfollowUserHandler(bag, authID, user) ==
    [follows |-> DeleteFollowUser(bag, authID, user.ID),
     resp |-> ProfileResp([user EXCEPT !.Following = FALSE])]

BeginUnfollowUser(p) ==
    /\ reqs[p].pc = "idle"
    /\ \E r \in users, name \in UsernameParams :
          Arrive(p, "unfollow", "select", r.id, <<>>, name, FALSE)
    /\ UNCHANGED <<users, follows>>

UnfollowUserSelect(p) ==
    /\ reqs[p].pc = "select"
    /\ reqs[p].op = "unfollow"
    /\ LET sel == SelectUserByUsername(users, reqs[p].param)
       IN  IF sel.err # NoErr THEN Finish(p, ErrResp(sel.err))
           ELSE Advance(p, "delete", sel.user)
    /\ UNCHANGED <<users, follows>>

UnfollowUserDelete(p) ==
    /\ reqs[p].pc = "delete"
    /\ reqs[p].op = "unfollow"
    /\ LET out == unfollowUserHandler(follows, reqs[p].auth, reqs[p].user[1])
       IN  /\ follows' = out.follows
           /\ Finish(p, out.resp)
    /\ UNCHANGED users

(***************************************************************************)
(* currentUserHandler                                                      *)
(***************************************************************************)
\* The user the authentication put into the request's context: the token
\* is verified now and the user it names is loaded.
UserFromContext(tbl, token) ==
    LET v == VerifyUserToken(token, now)
    IN  IF v.err # NoErr THEN [user |-> <<>>, err |-> v.err]
        ELSE IF \A r \in tbl : r.id # v.id THEN [user |-> <<>>, err |-> ErrNoRows]
        ELSE [user |-> <<UserOfRow(CHOOSE r \in tbl : r.id = v.id)>>,
              err |-> NoErr]

currentUserHandler(user) == UserResp(user)

\* The tokens the finished requests returned to their clients.
IssuedTokens ==
    {reqs[q].resp.user[1].Token :
        q \in {x \in Procs : /\ reqs[x].pc = "done"
                              /\ reqs[x].resp.user # <<>>
                              /\ reqs[x].resp.user[1].Token # <<>>}}

\* The request carries a token a client was given, or none that verifies.
BeginCurrentUser(p) ==
    /\ reqs[p].pc = "idle"
    /\ \E token \in IssuedTokens \cup {<<>>} :
          reqs' = [reqs EXCEPT ![p] =
                      [Idle EXCEPT !.pc = "verify", !.op = "current",
                                   !.token = token,
                                   !.conc = {q \in Procs \ {p} :
                                                Pending(reqs[q])}]]
    /\ UNCHANGED <<users, follows, env>>

CurrentUser(p) ==
    /\ reqs[p].pc = "verify"
    /\ reqs[p].op = "current"
    /\ LET c == UserFromContext(users, reqs[p].token)
       IN  Finish(p, IF c.err # NoErr THEN ErrResp(c.err)
                     ELSE currentUserHandler(c.user[1]))
    /\ UNCHANGED <<users, follows>>

(***************************************************************************)
(* Time passes.                                                            *)
(***************************************************************************)
\* The instants the clock is observed at, in hours: around the expiry of a
\* token made at 0 and of the tokens made after it.
Times == {0, 23, 24, 25, 49}

Tick ==
    /\ \E t \in Times : t > now /\ now' = t
    /\ UNCHANGED <<users, follows, reqs, signer>>

(***************************************************************************)
(* The response is delivered and the slot is free again.                   *)
(***************************************************************************)
Return(p) ==
    /\ reqs[p].pc = "done"
    /\ reqs' = [q \in Procs |->
                  IF q = p THEN Idle ELSE [reqs[q] EXCEPT !.conc = @ \ {p}]]
    /\ UNCHANGED <<users, follows, env>>

(***************************************************************************)
(* The account handlers: register, login, update                           *)
(***************************************************************************)
Init ==
    /\ users = {}
    /\ follows = EmptyBag
    /\ reqs = [p \in Procs |-> Idle]
    /\ now = 0
    /\ signer = "ok"

Next ==
    \E p \in Procs :
        \/ BeginCreateUser(p)
        \/ CreateUser(p)
        \/ BeginLoginUser(p)
        \/ LoginUser(p)
        \/ BeginUpdateUser(p)
        \/ UpdateUser(p)
        \/ Return(p)

Spec == Init /\ [][Next]_vars

\* The accounts with their sessions: tokens are made, time passes, tokens
\* are presented.
NextToken ==
    \/ Tick
    \/ \E p \in Procs :
          \/ BeginCreateUser(p)
          \/ CreateUser(p)
          \/ BeginLoginUser(p)
          \/ LoginUser(p)
          \/ BeginCurrentUser(p)
          \/ CurrentUser(p)
          \/ Return(p)

SpecToken == Init /\ [][NextToken]_vars

\* The accounts with a token signer that works or fails: CreateUserToken
\* returns a token or an error.
InitFault ==
    /\ users = {}
    /\ follows = EmptyBag
    /\ reqs = [p \in Procs |-> Idle]
    /\ now = 0
    /\ signer \in {"ok", "failing"}

SpecFault == InitFault /\ [][Next]_vars

(***************************************************************************)
(* The follow graph of two registered users: profile, follow, unfollow     *)
(***************************************************************************)
SeedUsers ==
    { RowOfUser([UserOfDraft(Draft("a@x", "alice", "pw1", "", ""))
                    EXCEPT !.PasswordHash = hashPassword("pw1", 1).hash], 1),
      RowOfUser([UserOfDraft(Draft("b@x", "bob", "pw2", "bio", "img"))
                    EXCEPT !.PasswordHash = hashPassword("pw2", 1).hash], 2) }

InitFollow ==
    /\ users = SeedUsers
    /\ follows = EmptyBag
    /\ reqs = [p \in Procs |-> Idle]
    /\ now = 0
    /\ signer = "ok"

NextFollow ==
    \E p \in Procs :
        \/ BeginProfile(p)
        \/ Profile(p)
        \/ BeginFollowUser(p)
        \/ FollowUserSelect(p)
        \/ FollowUserInsert(p)
        \/ BeginUnfollowUser(p)
        \/ UnfollowUserSelect(p)
        \/ UnfollowUserDelete(p)
        \/ Return(p)

SpecFollow == InitFollow /\ [][NextFollow]_vars

(***************************************************************************)
(* Properties                                                              *)
(***************************************************************************)
Done(r, op) == r.op = op /\ r.pc = "done"
Succeeded(r) == r.resp.err = NoErr

\* Slot p takes the step that runs its statement at position pc and ends
\* the request.
Ends(p, op, pc) ==
    /\ reqs[p].op = op
    /\ reqs[p].pc = pc
    /\ reqs'[p].pc = "done"

RowOf(tbl, id) == CHOOSE r \in tbl : r.id = id

\* A login with credentials that ended with an error.
LoginFailed(r) == Done(r, "login") /\ r.body # <<>> /\ ~Succeeded(r)

\* C1: a login that fails for its credentials fails with the same error
\* whether no user has the email or the password does not verify: two
\* failed logins with the same email and password return the same error.
C1_LoginFailureUniform ==
    \A p, q \in Procs :
        (LoginFailed(reqs[p]) /\ LoginFailed(reqs[q]) /\ reqs[p].body = reqs[q].body)
            => reqs[p].resp.err = reqs[q].resp.err

\* Two finished registers with the same email that overlapped.
RegisterPair(p, q) ==
    /\ p # q
    /\ Done(reqs[p], "create") /\ Done(reqs[q], "create")
    /\ reqs[p].body # <<>> /\ reqs[q].body # <<>>
    /\ reqs[p].body[1].Email = reqs[q].body[1].Email
    /\ reqs[p].body[1].Password # LongPassword
    /\ reqs[q].body[1].Password # LongPassword
    /\ p \in reqs[q].conc
    /\ reqs[q].fresh

\* C2: two register requests with the same email and passwords bcrypt
\* accepts, both waiting for the INSERT at the same time with the email and
\* usernames free and nothing else running: exactly one succeeds, the other
\* fails with the duplicate key error, and one row holds the email.
C2_ConcurrentRegister ==
    \A p, q \in Procs :
        RegisterPair(p, q) =>
            /\ Succeeded(reqs[p]) # Succeeded(reqs[q])
            /\ \A x \in {p, q} :
                  ~Succeeded(reqs[x]) => reqs[x].resp.err = ErrUniqueUsers
            /\ Cardinality({r \in users : r.email = reqs[p].body[1].Email}) = 1

C2_Witness ==
    \E p, q \in Procs :
        /\ RegisterPair(p, q)
        /\ Succeeded(reqs[p])
        /\ reqs[q].resp.err = ErrUniqueUsers

\* Two finished follows of the same pair that overlapped.
FollowPair(p, q) ==
    /\ p # q
    /\ Done(reqs[p], "follow") /\ Done(reqs[q], "follow")
    /\ reqs[p].user # <<>> /\ reqs[q].user # <<>>
    /\ reqs[p].auth = reqs[q].auth
    /\ reqs[p].user[1].ID = reqs[q].user[1].ID
    /\ p \in reqs[q].conc
    /\ reqs[q].fresh

\* C3: two follow requests of the same user for the same target, both in
\* flight at the same time with the edge absent and nothing else running:
\* exactly one succeeds, the other fails with the duplicate key error, and
\* the table holds the edge once.
C3_ConcurrentFollow ==
    \A p, q \in Procs :
        FollowPair(p, q) =>
            /\ Succeeded(reqs[p]) # Succeeded(reqs[q])
            /\ \A x \in {p, q} :
                  ~Succeeded(reqs[x]) => reqs[x].resp.err = ErrUniqueFollows
            /\ CopiesIn(<<reqs[p].auth, reqs[p].user[1].ID>>, follows) = 1

C3_Witness ==
    \E p, q \in Procs :
        /\ FollowPair(p, q)
        /\ reqs[p].resp.err = ErrUniqueFollows
        /\ Succeeded(reqs[q])

\* C4: the table never holds an ordered pair twice, and a follow whose
\* INSERT finds the edge present fails with the duplicate key error and
\* leaves the table as it was.
C4_EdgeUnique ==
    [][ /\ \A f \in BagToSet(follows') : CopiesIn(f, follows') = 1
        /\ \A p \in Procs :
              ( /\ Ends(p, "follow", "insert")
                /\ ExistsFollowUser(follows, reqs[p].auth, reqs[p].user[1].ID) )
                  => /\ reqs'[p].resp.err = ErrUniqueFollows
                     /\ follows' = follows ]_vars

C4_Witness ==
    \E p \in Procs :
        /\ Done(reqs[p], "follow")
        /\ reqs[p].resp.err = ErrUniqueFollows
        /\ CopiesIn(<<reqs[p].auth, reqs[p].user[1].ID>>, follows) = 1

\* C5: no edge leads from a user to itself, and a follow of oneself ends
\* with an error.
C5_NoSelfFollow ==
    /\ \A f \in BagToSet(follows) : f[1] # f[2]
    /\ \A p \in Procs :
          ( /\ Done(reqs[p], "follow")
            /\ reqs[p].user # <<>>
            /\ reqs[p].user[1].ID = reqs[p].auth ) => ~Succeeded(reqs[p])

\* C6: the profile's following flag is true exactly when the request has a
\* viewer and the edge (viewer, target) is in the table when the profile is
\* read.
C6_ProfileFollowing ==
    [][ \A p \in Procs :
          (Ends(p, "profile", "select") /\ Succeeded(reqs'[p])) =>
              LET target == CHOOSE r \in users : r.username = reqs[p].param
              IN  reqs'[p].resp.profile[1].following
                      = ( /\ reqs[p].auth # 0
                          /\ BagIn(<<reqs[p].auth, target.id>>, follows) ) ]_vars

\* Two profiles of the same target read while an edge to it exists: the
\* follower's is true, the other viewer's (or nobody's) is false.
C6_Witness ==
    \E p, q \in Procs :
        /\ Done(reqs[p], "profile") /\ Done(reqs[q], "profile")
        /\ Succeeded(reqs[p]) /\ Succeeded(reqs[q])
        /\ reqs[p].param = reqs[q].param
        /\ reqs[p].auth # reqs[q].auth
        /\ reqs[p].resp.profile[1].following
        /\ ~reqs[q].resp.profile[1].following
        /\ \E f \in BagToSet(follows) :
              /\ f[1] = reqs[p].auth
              /\ \E r \in users : r.id = f[2] /\ r.username = reqs[p].param

\* C7: an update changes no row but the authenticated user's, adds and
\* removes none, and leaves every id as it was.
C7_UpdateOwnRowOnly ==
    [][ \A p \in Procs :
          Ends(p, "update", "update") =>
              /\ \A r \in users : r.id # reqs[p].auth => r \in users'
              /\ {r.id : r \in users'} = {r.id : r \in users}
              /\ Cardinality(users') = Cardinality(users)
              /\ Succeeded(reqs'[p]) =>
                    reqs'[p].resp.user[1].ID = reqs[p].auth ]_vars

C7_Witness ==
    \E p \in Procs :
        /\ Done(reqs[p], "update")
        /\ Succeeded(reqs[p])
        /\ Cardinality(users) = 2
        /\ RowOf(users, reqs[p].auth).email = reqs[p].body[1].Email
        /\ \E r \in users : r.id # reqs[p].auth

\* C8: an update replaces the stored hash only when the draft has a
\* password: then that password verifies against the new hash; without one
\* the hash stays.
C8_RehashOnlyIfSupplied ==
    [][ \A p \in Procs :
          (Ends(p, "update", "update") /\ Succeeded(reqs'[p])) =>
              LET old == RowOf(users, reqs[p].auth).password_hash
                  new == RowOf(users', reqs[p].auth).password_hash
                  pass == reqs[p].body[1].Password
              IN  IF pass # ""
                  THEN comparePasswords(new, pass) = NoErr
                  ELSE new = old ]_vars

MissingField(d) == d.Email = "" \/ d.Username = "" \/ d.Password = ""

\* C9: a register whose draft lacks the email, the username or the
\* password ends with an error, stores no row and returns no user or token.
C9_RegisterValidates ==
    [][ \A p \in Procs :
          ( /\ Ends(p, "create", "insert")
            /\ reqs[p].body # <<>>
            /\ MissingField(reqs[p].body[1]) )
              => /\ ~Succeeded(reqs'[p])
                 /\ reqs'[p].resp.user = <<>>
                 /\ users' = users ]_vars

UniqueUsers(tbl) ==
    \A r1, r2 \in tbl :
        (r1.email = r2.email \/ r1.username = r2.username) => r1 = r2

\* C10: no two rows share an email or a username, and an update whose email
\* or username another row holds fails (with the duplicate key error once
\* its password was hashed) and leaves the table as it was.
C10_UniqueEmailUsername ==
    [][ /\ UniqueUsers(users')
        /\ \A p \in Procs :
              ( /\ Ends(p, "update", "update")
                /\ reqs[p].body # <<>>
                /\ \E r \in users :
                      /\ r.id # reqs[p].auth
                      /\ \/ r.email = reqs[p].body[1].Email
                         \/ r.username = reqs[p].body[1].Username )
                  => /\ ~Succeeded(reqs'[p])
                     /\ reqs[p].body[1].Password # LongPassword
                           => reqs'[p].resp.err = ErrUniqueUsers
                     /\ users' = users ]_vars

C10_Witness ==
    \E p \in Procs :
        /\ Done(reqs[p], "update")
        /\ reqs[p].resp.err = ErrUniqueUsers
        /\ Cardinality(users) = 2
        /\ UniqueUsers(users)

\* A register with a draft and a password bcrypt accepts whose email or
\* username a row holds.
DuplicateRegister(r) ==
    /\ r.op = "create"
    /\ r.body # <<>>
    /\ r.body[1].Password # LongPassword
    /\ \E x \in users : \/ x.email = r.body[1].Email
                         \/ x.username = r.body[1].Username

\* C11: a register whose email or username a row already holds fails with
\* the duplicate key error and returns no user; the table stays as it was,
\* so every login answers as it did before: the owner's password still
\* verifies.
C11_DuplicateRegisterRejected ==
    [][ \A p \in Procs :
          (Ends(p, "create", "insert") /\ DuplicateRegister(reqs[p])) =>
              /\ reqs'[p].resp.err = ErrUniqueUsers
              /\ reqs'[p].resp.user = <<>>
              /\ users' = users
              /\ \A b \in LoginBodies :
                    loginUserHandler(users', b) = loginUserHandler(users, b) ]_vars

\* A register refused for its email, and the owner's login with the
\* password of the row.
C11_Witness ==
    \E p, q \in Procs :
        /\ Done(reqs[p], "create")
        /\ reqs[p].resp.err = ErrUniqueUsers
        /\ Done(reqs[q], "login")
        /\ Succeeded(reqs[q])
        /\ reqs[q].body[1].Email = reqs[p].body[1].Email
        /\ reqs[q].body[1].Password # reqs[p].body[1].Password

\* The step changes the count of no edge but (a, b).
OtherEdgesKept(a, b) ==
    \A f \in BagToSet(follows) \cup BagToSet(follows') :
        f # <<a, b>> => CopiesIn(f, follows') = CopiesIn(f, follows)

\* The following flag a profile of user read by viewer a returns in the
\* next state.
ProfileFollowingNext(a, user) ==
    profileHandler(users', follows', a, user.Username).profile[1].following

\* C12: a follow that succeeds adds the edge (A, B) and changes no other
\* edge; an unfollow succeeds, leaves the edge (A, B) absent, so that B's
\* profile read by A says following = false, and changes no other edge:
\* after a follow and the unfollow that comes next every other edge is as
\* it was before the follow.
C12_FollowThenUnfollow ==
    [][ \A p \in Procs :
          /\ (Ends(p, "follow", "insert") /\ Succeeded(reqs'[p])) =>
                /\ ExistsFollowUser(follows', reqs[p].auth, reqs[p].user[1].ID)
                /\ OtherEdgesKept(reqs[p].auth, reqs[p].user[1].ID)
          /\ Ends(p, "unfollow", "delete") =>
                /\ Succeeded(reqs'[p])
                /\ ~ExistsFollowUser(follows', reqs[p].auth, reqs[p].user[1].ID)
                /\ ~ProfileFollowingNext(reqs[p].auth, reqs[p].user[1])
                /\ OtherEdgesKept(reqs[p].auth, reqs[p].user[1].ID) ]_vars

\* A follow that succeeded and an unfollow of the same pair after it, with
\* another edge still in the table.
C12_Witness ==
    \E p, q \in Procs :
        /\ Done(reqs[p], "follow") /\ Succeeded(reqs[p])
        /\ Done(reqs[q], "unfollow") /\ Succeeded(reqs[q])
        /\ reqs[p].auth = reqs[q].auth
        /\ reqs[p].param = reqs[q].param
        /\ ~ExistsFollowUser(follows, reqs[p].auth, reqs[p].user[1].ID)
        /\ follows # EmptyBag

\* C13: an unfollow whose edge is absent succeeds with following = false
\* and leaves the table as it was, and running any unfollow once more
\* gives the table and the response of running it once.
C13_UnfollowIdempotent ==
    [][ \A p \in Procs :
          Ends(p, "unfollow", "delete") =>
              /\ ~ExistsFollowUser(follows, reqs[p].auth, reqs[p].user[1].ID)
                    => /\ Succeeded(reqs'[p])
                       /\ ~reqs'[p].resp.profile[1].following
                       /\ follows' = follows
              /\ unfollowUserHandler(follows', reqs[p].auth, reqs[p].user[1])
                    = [follows |-> follows', resp |-> reqs'[p].resp] ]_vars

\* Two unfollows of the same pair, both answered with success.
C13_Witness ==
    \E p, q \in Procs :
        /\ p # q
        /\ Done(reqs[p], "unfollow") /\ Done(reqs[q], "unfollow")
        /\ Succeeded(reqs[p]) /\ Succeeded(reqs[q])
        /\ reqs[p].auth = reqs[q].auth
        /\ reqs[p].param = reqs[q].param
        /\ ~ExistsFollowUser(follows, reqs[p].auth, reqs[p].user[1].ID)

\* The columns of a users row: none holds the password.
UserColumns == {"id", "email", "username", "password_hash", "bio", "image"}

\* C14: the user a register, a login or an update returns has an empty
\* password, and a stored row has no password column: its password_hash is
\* a bcrypt digest.
C14_PasswordNeverExposed ==
    /\ \A p \in Procs :
          ( /\ reqs[p].pc = "done"
            /\ reqs[p].op \in {"create", "login", "update"}
            /\ reqs[p].resp.user # <<>> ) => reqs[p].resp.user[1].Password = ""
    /\ \A r \in users :
          /\ DOMAIN r = UserColumns
          /\ Len(r.password_hash) = 3
          /\ r.password_hash[1] = "2a"

\* A register and an update, both sent with a password and both answered
\* with a user.
C14_Witness ==
    \E p, q \in Procs :
        /\ Done(reqs[p], "create") /\ Succeeded(reqs[p])
        /\ reqs[p].body[1].Password # ""
        /\ Done(reqs[q], "update") /\ Succeeded(reqs[q])
        /\ reqs[q].body[1].Password # ""
        /\ reqs[q].resp.user[1].Password = ""

\* Slot p's request ends with a user and a token made for it.
Mints(p) ==
    /\ Ends(p, "create", "insert") \/ Ends(p, "login", "select")
    /\ Succeeded(reqs'[p])

\* C15: the token a register or a login returns names the returned user
\* and expires 24 hours after it was made: it verifies to that user at
\* every time up to then and fails with the expired error after; a token
\* presented verifies to its user while now <= its expiry whatever else
\* happened, and is refused as expired after; time does not go back, so an
\* expired token stays expired.
C15_TokenLifetime ==
    [][ /\ now' >= now
        /\ \A p \in Procs :
              /\ Mints(p) =>
                    LET u == reqs'[p].resp.user[1]
                    IN  /\ u.Token = <<u.ID, now + TokenTTL>>
                        /\ \A t \in Times :
                              t >= now =>
                                  VerifyUserToken(u.Token, t)
                                      = IF t <= now + TokenTTL
                                        THEN [id |-> u.ID, err |-> NoErr]
                                        ELSE [id |-> 0, err |-> ErrTokenExpired]
              /\ (Ends(p, "current", "verify") /\ reqs[p].token # <<>>) =>
                    IF now <= reqs[p].token[2]
                    THEN /\ Succeeded(reqs'[p])
                         /\ reqs'[p].resp.user[1].ID = reqs[p].token[1]
                    ELSE /\ reqs'[p].resp.err = ErrTokenExpired
                         /\ reqs'[p].resp.user = <<>>
              /\ ( /\ reqs[p].token # <<>>
                    /\ VerifyUserToken(reqs[p].token, now).err = ErrTokenExpired )
                    => VerifyUserToken(reqs[p].token, now').err = ErrTokenExpired
      ]_vars

\* A token made at 0 by a register, presented after its 24 hours and
\* refused as expired, while a token made later is accepted.
C15_Witness ==
    \E p, q \in Procs :
        /\ Done(reqs[p], "current")
        /\ reqs[p].resp.err = ErrTokenExpired
        /\ reqs[p].token[2] = TokenTTL
        /\ now = 25
        /\ Done(reqs[q], "login") /\ Succeeded(reqs[q])
        /\ reqs[q].resp.user[1].Token[2] > now

\* The passwords a login is tried with.
TriedPasswords == {"pw1", "pw2", "", LongPassword}

\* The row of the user a register returned has the email and the hash the
\* register gave it: no update has changed them.
AsRegistered(u) ==
    \E r \in users : /\ r.id = u.ID
                      /\ r.email = u.Email
                      /\ r.password_hash = u.PasswordHash

C17_ReturnedFlagIsEdge ==
    [][ \A p \in Procs :
          /\ (Ends(p, "follow", "insert") /\ reqs'[p].resp.profile # <<>>) =>
                /\ reqs'[p].resp.profile[1].following
                /\ ~ExistsFollowUser(follows, reqs[p].auth, reqs[p].user[1].ID)
                /\ ExistsFollowUser(follows', reqs[p].auth, reqs[p].user[1].ID)
                /\ ProfileFollowingNext(reqs[p].auth, reqs[p].user[1])
          /\ (Ends(p, "follow", "insert") /\ reqs'[p].resp.profile = <<>>) =>
                /\ ~Succeeded(reqs'[p])
                /\ follows' = follows
          /\ (Ends(p, "unfollow", "delete") /\ reqs'[p].resp.profile # <<>>) =>
                /\ ~reqs'[p].resp.profile[1].following
                /\ ~ExistsFollowUser(follows', reqs[p].auth, reqs[p].user[1].ID)
                /\ ~ProfileFollowingNext(reqs[p].auth, reqs[p].user[1]) ]_vars

\* A follow answered with following = true and the target's profile read
\* by the follower while the edge is there.
C17_Witness ==
    \E p, q \in Procs :
        /\ Done(reqs[p], "follow") /\ Succeeded(reqs[p])
        /\ reqs[p].resp.profile[1].following
        /\ Done(reqs[q], "profile") /\ Succeeded(reqs[q])
        /\ reqs[q].auth = reqs[p].auth
        /\ reqs[q].param = reqs[p].param
        /\ reqs[q].resp.profile[1].following
        /\ ExistsFollowUser(follows, reqs[p].auth, reqs[p].user[1].ID)

\* The ids of the users.
UserIDs(tbl) == {r.id : r \in tbl}

\* Slot p's follow or unfollow runs its SELECT by a username no user has.
SelectsUnknown(p) ==
    /\ reqs[p].op \in {"follow", "unfollow"}
    /\ reqs[p].pc = "select"
    /\ reqs'[p].pc # "select"
    /\ \A r \in users : r.username # reqs[p].param

\* C18: both ends of every edge are ids of users, and a follow or an
\* unfollow of a username no user has ends at its SELECT with the no-rows
\* error, the table of edges untouched.
C18_EdgesBetweenUsers ==
    [][ /\ \A f \in BagToSet(follows') :
              f[1] \in UserIDs(users') /\ f[2] \in UserIDs(users')
        /\ \A p \in Procs :
              SelectsUnknown(p) =>
                  /\ reqs'[p].pc = "done"
                  /\ reqs'[p].resp.err = ErrNoRows
                  /\ reqs'[p].resp.profile = <<>>
                  /\ follows' = follows ]_vars

\* A follow and an unfollow of an unknown username, both refused, with an
\* edge in the table.
C18_Witness ==
    \E p, q \in Procs :
        /\ Done(reqs[p], "follow") /\ Done(reqs[q], "unfollow")
        /\ reqs[p].param = "nobody" /\ reqs[q].param = "nobody"
        /\ reqs[p].resp.err = ErrNoRows
        /\ reqs[q].resp.err = ErrNoRows
        /\ follows # EmptyBag

\* C19: a register that ends with an error, whichever it is, leaves the
\* users table as it was.
C19_RegisterAllOrNothing ==
    [][ \A p \in Procs :
          (Ends(p, "create", "insert") /\ ~Succeeded(reqs'[p]))
              => users' = users ]_vars

====
